---------------------------- MODULE Spec2Model ----------------------------
(***************************************************************************)
(* A model of the concurrent 1brc pipeline of src/main.go: one reader      *)
(* (solve1brc's read loop), workerNum worker goroutines, the two channels  *)
(* toProcess / doneProcess, the per-slot buffers and aggregator maps, and  *)
(* the final merge and report (printSolutions).                            *)
(*                                                                         *)
(* Bytes are their ASCII codes.  A float64 of the program is held exactly: *)
(* its sign bit and its magnitude as a whole number of units of 2^-56, so  *)
(* that every sum, product and quotient rounds as IEEE 754 binary64 does   *)
(* (round to nearest, ties to even; no fused multiply-add).  Go indices    *)
(* are kept 0-based; a TLA+ sequence is indexed at index + 1.              *)
(***************************************************************************)
EXTENDS Integers, Sequences, FiniteSets, Bags, TLC

\* ------------------------------------------------------------------ bytes
Newline == 10
Minus == 45
Dot == 46
Slash == 47
Zero == 48
Semicolon == 59
Equals == 61

\* ------------------------------------------------------ program constants
educatedJump == 3

\* readBufferSize and workerNum are 4 MiB and 16 in the source (lines 20 and
\* 23); here they bound the model, which runs the same code with a small
\* page and few workers.
readBufferSize == 18
workerNum == 2

\* ------------------------------------------------------------ the inputs
MaxLines == 3

\* The records the model's input files are drawn from: P;10.5 and O;-2.1
Records ==
  { <<80, 59, 49, 48, 46, 53>>,
    <<79, 59, 45, 50, 46, 49>> }

RECURSIVE LinesOfLen(_)
LinesOfLen(n) ==
  IF n = 0 THEN { <<>> }
  ELSE { f \o r \o <<Newline>> : f \in LinesOfLen(n - 1), r \in Records }

\* The scenario of the specification's section 8: the lines P;10.5, P;12.3
\* and O;-2.1 in every order.
ScenarioLines ==
  << <<80, 59, 49, 48, 46, 53>>,
     <<80, 59, 49, 50, 46, 51>>,
     <<79, 59, 45, 50, 46, 49>> >>

ScenarioFiles ==
  { ScenarioLines[p[1]] \o <<Newline>> \o ScenarioLines[p[2]] \o <<Newline>>
      \o ScenarioLines[p[3]] \o <<Newline>> : p \in Permutations(1..3) }

\* A file of 1..MaxLines records, each ended by a newline, or such a file
\* with the newline of its last record left out; and the scenario files.
Files ==
  LET full == UNION { LinesOfLen(n) : n \in 1..MaxLines }
  IN  full \cup { SubSeq(f, 1, Len(f) - 1) : f \in full } \cup ScenarioFiles

\* --------------------------------------------------------- small helpers
Min2(a, b) == IF a < b THEN a ELSE b

EmptyMap == [k \in {} |-> 0]

\* Go's copy(dst[:n], src[:n]): the first n bytes of dst are overwritten.
CopyPrefix(dst, src, n) ==
  [k \in 1..Len(dst) |-> IF k <= n THEN src[k] ELSE dst[k]]

\* ---------------------------------------------------------------- float64
\* The magnitude of a float64 is <<l1, l2, l3, l4>>, worth
\* l1 + l2 * 2^20 + l3 * 2^40 + l4 * 2^60 units of 2^-56: three limbs of 20
\* bits and a top limb for the rest.  0.1 * d is at least 2^-4 in size, so
\* its last place is 2^-56 or coarser, and sums and products of multiples of
\* 2^-56 round to multiples of 2^-56.
limb == 2^20

zeroMag == <<0, 0, 0, 0>>

\* Carries (or borrows) taken from each limb into the next.
normMag(l) ==
  LET a2 == l[2] + (l[1] \div limb)
      a3 == l[3] + (a2 \div limb)
  IN  <<l[1] % limb, a2 % limb, a3 % limb, l[4] + (a3 \div limb)>>

addMag(a, b) == normMag([k \in 1..4 |-> a[k] + b[k]])
subMag(a, b) == normMag([k \in 1..4 |-> a[k] - b[k]])
mulMag(a, n) == normMag([k \in 1..4 |-> a[k] * n])

lessMag(a, b) ==
  \E k \in 1..4 : a[k] < b[k] /\ \A j \in (k + 1)..4 : a[j] = b[j]

\* The quotient and the remainder of magnitude a by the whole number n.
divMag(a, n) ==
  LET t3 == (a[4] % n) * limb + a[3]
      t2 == (t3 % n) * limb + a[2]
      t1 == (t2 % n) * limb + a[1]
  IN  [q |-> <<t1 \div n, t2 \div n, t3 \div n, a[4] \div n>>, r |-> t1 % n]

RECURSIVE bitLen(_)
bitLen(x) == IF x = 0 THEN 0 ELSE 1 + bitLen(x \div 2)

bitsOfMag(a) ==
  IF a[4] > 0 THEN 60 + bitLen(a[4])
  ELSE IF a[3] > 0 THEN 40 + bitLen(a[3])
  ELSE IF a[2] > 0 THEN 20 + bitLen(a[2])
  ELSE bitLen(a[1])

\* The rounding of every float64 operation: the exact result a (plus a
\* fraction of a unit when sticky) is cut to 53 significant bits, to the
\* nearest, a tie to the even mantissa.  When more than a limb is cut off,
\* the lowest limb only tells whether the cut-off part is exactly a half.
RECURSIVE roundMag(_, _)
roundMag(a, sticky) ==
  LET s == bitsOfMag(a) - 53
  IN  IF s <= 0 THEN a
      ELSE IF s > 20
        THEN LET q == roundMag(<<a[2], a[3], a[4], 0>>, sticky \/ a[1] # 0)
             IN  <<0, q[1], q[2], q[3] + q[4] * limb>>
      ELSE
        LET pow == 2^s
            r == a[1] % pow
            odd == IF s < 20 THEN (a[1] \div pow) % 2 = 1 ELSE a[2] % 2 = 1
            cut == <<a[1] - r, a[2], a[3], a[4]>>
            up == \/ 2 * r > pow
                  \/ 2 * r = pow /\ (sticky \/ odd)
        IN  IF up THEN addMag(cut, <<pow % limb, pow \div limb, 0, 0>>) ELSE cut

float64Zero == [neg |-> FALSE, m |-> zeroMag]

\* float64(n) of an int n.
float64Of(n) ==
  LET a == IF n < 0 THEN 0 - n ELSE n
  IN  [neg |-> n < 0, m |-> <<0, 0, (a % 16) * 2^16, a \div 16>>]

float64Neg(x) == [x EXCEPT !.neg = ~x.neg]

\* x + y; x + (-x) is +0.
float64Add(x, y) ==
  IF x.neg = y.neg THEN [neg |-> x.neg, m |-> roundMag(addMag(x.m, y.m), FALSE)]
  ELSE IF x.m = y.m THEN float64Zero
  ELSE IF lessMag(x.m, y.m)
    THEN [neg |-> y.neg, m |-> roundMag(subMag(y.m, x.m), FALSE)]
    ELSE [neg |-> x.neg, m |-> roundMag(subMag(x.m, y.m), FALSE)]

\* x < y; -0 and +0 are equal.
float64Less(x, y) ==
  IF x.neg # y.neg THEN x.neg /\ (x.m # zeroMag \/ y.m # zeroMag)
  ELSE IF x.neg THEN lessMag(y.m, x.m)
  ELSE lessMag(x.m, y.m)

\* The float64 nearest to the constant .1: 7205759403792794 * 2^-56.
tenth == <<629146, 629145, 6553, 0>>

\* .1 * float64(d) of an int d (line 87).
tenthsOf(d) ==
  LET a == IF d < 0 THEN 0 - d ELSE d
  IN  [neg |-> d < 0, m |-> roundMag(mulMag(tenth, a), FALSE)]

\* ------------------------------------------------------ fastParseFloat64
\* The digits loop of fastParseFloat64: from index i, num *= 10, num += b[i]-48
\* until b[i] is '.'; running off the slice is an index-out-of-range panic.
RECURSIVE parseDigits(_, _, _)
parseDigits(b, i, num) ==
  IF i >= Len(b) THEN [panic |-> TRUE, num |-> num, i |-> i]
  ELSE IF b[i + 1] = Dot THEN [panic |-> FALSE, num |-> num, i |-> i]
  ELSE parseDigits(b, i + 1, num * 10 + (b[i + 1] - Zero))

\* fastParseFloat64(b): float64(num) + dec, negated after a leading '-'.
fastParseFloat64(b) ==
  IF Len(b) = 0 THEN [panic |-> TRUE, val |-> float64Zero]
  ELSE
    LET neg == b[1] = Minus
        d == parseDigits(b, IF neg THEN 1 ELSE 0, 0)
        j == d.i + 1
    IN  IF d.panic \/ j >= Len(b) THEN [panic |-> TRUE, val |-> float64Zero]
        ELSE LET sum == float64Add(float64Of(d.num), tenthsOf(b[j + 1] - Zero))
             IN  [panic |-> FALSE, val |-> IF neg THEN float64Neg(sum) ELSE sum]

\* ------------------------------------------------------------- solveLine
\* The index of the first ';' of line, or Len(line) when there is none.
RECURSIVE findSemicolon(_, _)
findSemicolon(line, i) ==
  IF i >= Len(line) THEN i
  ELSE IF line[i + 1] = Semicolon THEN i
  ELSE findSemicolon(line, i + 1)

\* A fresh &solutionItem{}: every field is Go's zero value.
newSolutionItem ==
  [min |-> float64Zero, max |-> float64Zero, count |-> 0, acc |-> float64Zero]

\* foldInto with the two comparisons turned round.
foldIntoReversed(s, num) ==
  [acc |-> float64Add(s.acc, num),
   count |-> s.count + 1,
   max |-> IF float64Less(num, s.max) THEN num ELSE s.max,
   min |-> IF float64Less(s.min, num) THEN num ELSE s.min]

\* Lines 121-128: the update of the station's item by the parsed number.
foldInto(s, num) ==
  [acc |-> float64Add(s.acc, num),
   count |-> s.count + 1,
   max |-> IF float64Less(s.max, num) THEN num ELSE s.max,
   min |-> IF float64Less(num, s.min) THEN num ELSE s.min]

\* solveLine(line, solution): the map afterwards, and whether it panicked.  A
\* new station is put into the map (lines 113-117) before its value is parsed
\* (line 120), so it stays there, all zero, when the parse panics.
solveLine(line, solution) ==
  LET i == findSemicolon(line, 0)
  IN  IF i >= Len(line) THEN [panic |-> TRUE, sol |-> solution]
      ELSE
        LET name == SubSeq(line, 1, i)
            s == IF name \in DOMAIN solution THEN solution[name] ELSE newSolutionItem
            p == fastParseFloat64(SubSeq(line, i + 2, Len(line)))
        IN  [panic |-> p.panic,
             sol |-> [k \in DOMAIN solution \cup {name} |->
                        IF k # name THEN solution[k]
                        ELSE IF p.panic THEN s
                        ELSE foldInto(s, p.val)]]

\* --------------------------------------------------------- processBuffer
\* scanBuffer with a jump that takes a record to be at least eight bytes.
RECURSIVE scanBufferLongJump(_, _, _, _)
scanBufferLongJump(b, fi, ri, st) ==
  IF fi >= Len(b) THEN st
  ELSE IF b[fi + 1] = Newline
    THEN LET line == SubSeq(b, ri + 1, fi)
             r == solveLine(line, st.sol)
         IN  IF r.panic THEN [st EXCEPT !.panic = TRUE, !.sol = r.sol]
             ELSE scanBufferLongJump(b, fi + 2 * educatedJump + 1, fi + 1,
                                     [sol |-> r.sol,
                                      lines |-> st.lines (+) SetToBag({line}),
                                      panic |-> FALSE])
    ELSE scanBufferLongJump(b, fi + 1, ri, st)

\* The scan of processBuffer from front-index fi and rear-index ri; st holds
\* the map so far, the bag of lines solveLine has folded, and whether a
\* solveLine panicked (the map is then as that solveLine left it).
RECURSIVE scanBuffer(_, _, _, _)
scanBuffer(b, fi, ri, st) ==
  IF fi >= Len(b) THEN st
  ELSE IF b[fi + 1] = Newline
    THEN LET line == SubSeq(b, ri + 1, fi)
             r == solveLine(line, st.sol)
         IN  IF r.panic THEN [st EXCEPT !.panic = TRUE, !.sol = r.sol]
             ELSE scanBuffer(b, fi + educatedJump + 1, fi + 1,
                             [sol |-> r.sol,
                              lines |-> st.lines (+) SetToBag({line}),
                              panic |-> FALSE])
    ELSE scanBuffer(b, fi + 1, ri, st)

processBuffer(b, solution) ==
  scanBuffer(b, 0, 0, [sol |-> solution, lines |-> EmptyBag, panic |-> FALSE])

\* -------------------------------------------------------- printSolutions
\* One step of the merge loop body for key k of map s (lines 158-172).  When
\* k is new, item = v makes item and v the same *solutionItem, so the four
\* updates that follow read the item they are writing.
mergeItem(item, v) ==
  [acc |-> float64Add(item.acc, v.acc),
   count |-> item.count + v.count,
   max |-> IF float64Less(item.max, v.max) THEN v.max ELSE item.max,
   min |-> IF float64Less(v.min, item.min) THEN v.min ELSE item.min]

mergeMap(solution, s) ==
  [k \in DOMAIN solution \cup DOMAIN s |->
     IF k \notin DOMAIN s THEN solution[k]
     ELSE IF k \notin DOMAIN solution THEN mergeItem(s[k], s[k])
     ELSE mergeItem(solution[k], s[k])]

\* The merge loop over the slice of maps, in slice order; sols is a sequence.
RECURSIVE mergeFrom(_, _, _)
mergeFrom(sols, n, solution) ==
  IF n > Len(sols) THEN solution
  ELSE mergeFrom(sols, n + 1, mergeMap(solution, sols[n]))

mergeSolutions(sols) == mergeFrom(sols, 1, EmptyMap)

\* Go's string order: byte-wise, a proper prefix first.
RECURSIVE lessBytes(_, _)
lessBytes(a, b) ==
  IF Len(b) = 0 THEN FALSE
  ELSE IF Len(a) = 0 THEN TRUE
  ELSE IF a[1] # b[1] THEN a[1] < b[1]
  ELSE lessBytes(Tail(a), Tail(b))

\* slices.Sort(keys)
RECURSIVE sortKeys(_)
sortKeys(S) ==
  IF S = {} THEN <<>>
  ELSE LET m == CHOOSE x \in S : \A y \in S \ {x} : lessBytes(x, y)
       IN  <<m>> \o sortKeys(S \ {m})

\* The decimal digits of a natural number.
RECURSIVE digits(_)
digits(n) ==
  IF n < 10 THEN <<Zero + n>> ELSE digits(n \div 10) \o <<Zero + (n % 10)>>

\* The text of a number of mag tenths with sign bit neg, one decimal.
fmtTenths(neg, mag) ==
  (IF neg THEN <<Minus>> ELSE <<>>) \o digits(mag \div 10) \o <<Dot, Zero + (mag % 10)>>

\* The whole part of a magnitude, and whether its fraction is a half or more.
wholeOfMag(a) == a[4] * 16 + (a[3] \div 2^16)
halfOrMore(a) == (a[3] \div 2^15) % 2 = 1

\* %.1f of the float64 x: the decimal nearest to x, a tie to the even digit.
fmtFloat64(x) ==
  LET t == mulMag(x.m, 10)
      f == t[3] % 2^16
      rest == t[2] > 0 \/ t[1] > 0
      up == \/ f > 2^15
            \/ f = 2^15 /\ (rest \/ wholeOfMag(t) % 2 = 1)
  IN  fmtTenths(x.neg, wholeOfMag(t) + (IF up THEN 1 ELSE 0))

\* |math.Round(10*acc/float64(count))| for count > 0: the product and the
\* quotient each round to a float64, then the quotient rounds half away from
\* zero.  A quotient below 1/4 rounds to 0 whatever its last bits.
roundMean(acc, count) ==
  LET d == divMag(roundMag(mulMag(acc.m, 10), FALSE), count)
      q == roundMag(d.q, d.r # 0)
  IN  IF bitsOfMag(d.q) <= 54 THEN 0
      ELSE wholeOfMag(q) + (IF halfOrMore(q) THEN 1 ELSE 0)

\* %.1f of mean (line 183-184).  math.Round keeps the sign of its argument,
\* so a negative sum prints "-0.0" when it rounds to zero; with count = 0 the
\* quotient is 0/0, which prints as NaN (or x/0, +Inf or -Inf).
fmtMean(item) ==
  IF item.count = 0
    THEN IF item.acc.m = zeroMag THEN <<78, 97, 78>>
         ELSE <<IF item.acc.neg THEN Minus ELSE 43, 73, 110, 102>>
    ELSE fmtTenths(item.acc.neg, roundMean(item.acc, item.count))

\* fmt.Printf("%s=%.1f/%.1f/%.1f\n", k, item.min, mean, item.max)
formatLine(k, item) ==
  k \o <<Equals>> \o fmtFloat64(item.min)
    \o <<Slash>> \o fmtMean(item)
    \o <<Slash>> \o fmtFloat64(item.max)
    \o <<Newline>>

\* What printSolutions writes for the slice of maps sols when it runs to its
\* end: a sequence of lines.
printSolutions(sols) ==
  LET solution == mergeSolutions(sols)
      keys == sortKeys(DOMAIN solution)
  IN  [n \in 1..Len(keys) |-> formatLine(keys[n], solution[keys[n]])]

\* The maps after printSolutions' merge loop (lines 156-174): the merged item
\* of a station is the item of the first map that holds the station, updated
\* in place.
solutionsAfterPrint(sols) ==
  LET solution == mergeSolutions(sols)
  IN  [n \in 1..Len(sols) |->
        [k \in DOMAIN sols[n] |->
           IF \A m \in 1..(n - 1) : k \notin DOMAIN sols[m]
           THEN solution[k] ELSE sols[n][k]]]

\* printSolutions' local map solution once the merge loop is over, read off
\* the merged maps: solution[k] points at the item of the first map with k.
solutionOf(sols) ==
  [k \in UNION { DOMAIN sols[n] : n \in 1..Len(sols) } |->
     sols[CHOOSE n \in 1..Len(sols) :
            /\ k \in DOMAIN sols[n]
            /\ \A m \in 1..(n - 1) : k \notin DOMAIN sols[m]][k]]

\* The n-th pass of the loop over the sorted keys (lines 181-185): the line
\* its fmt.Printf writes.
reportLine(sols, n) ==
  LET solution == solutionOf(sols)
      keys == sortKeys(DOMAIN solution)
  IN  formatLine(keys[n], solution[keys[n]])

\* How many lines the loop over the sorted keys writes.
reportLen(sols) == Cardinality(DOMAIN solutionOf(sols))

\* ------------------------------------------------------------- the state
VARIABLES
  file,           \* the bytes of the input file
  readMax,        \* the most bytes one f.Read call returns in this run
  off,            \* the file offset of f
  readBuffer,     \* the staging buffer
  remain,         \* bytes carried over at the front of readBuffer
  blen,           \* buffer len after the read
  li,             \* last line break index (-1: the scan ran off the front)
  slot,           \* the index i the reader took from doneProcess
  pc,             \* the reader's position in solve1brc
  toProcess,      \* chan *workItem, in order
  doneProcess,    \* chan int, in order
  closed,         \* toProcess has been closed
  wpc,            \* each worker goroutine's position
  item,           \* each worker's received workItem
  workerBuffers,  \* the per-slot byte buffers
  solutions,      \* the per-slot aggregator maps
  wg,             \* the WaitGroup counter
  folded,         \* the bag of lines handed to solveLine so far
  output          \* the lines written to stdout

vars ==
  <<file, readMax, off, readBuffer, remain, blen, li, slot, pc, toProcess,
    doneProcess, closed, wpc, item, workerBuffers, solutions, wg, folded, output>>

Slots == 0..(workerNum - 1)
Workers == 1..workerNum
chanCap == workerNum + 1

zeroBuffer == [k \in 1..readBufferSize |-> 0]
noItem == [bufferIndex |-> 0, bufferLen |-> 0]

\* The state when the read loop is entered (line 231): every slot index is on
\* doneProcess, every worker goroutine waits on toProcess.
InitWith(f, m) ==
  /\ file = f
  /\ readMax = m
  /\ off = 0
  /\ readBuffer = zeroBuffer
  /\ remain = 0
  /\ blen = 0
  /\ li = 0
  /\ slot = 0
  /\ pc = "read"
  /\ toProcess = <<>>
  /\ doneProcess = [k \in 1..workerNum |-> k - 1]
  /\ closed = FALSE
  /\ wpc = [w \in Workers |-> "recv"]
  /\ item = [w \in Workers |-> noItem]
  /\ workerBuffers = [k \in 1..workerNum |-> zeroBuffer]
  /\ solutions = [k \in 1..workerNum |-> EmptyMap]
  /\ wg = workerNum
  /\ folded = EmptyBag
  /\ output = <<>>

Init == \E f \in Files, m \in 1..readBufferSize : InitWith(f, m)

\* A worker goroutine has panicked and the runtime has not yet exited on it.
panicPending == \E w \in Workers : wpc[w] = "panicked"

\* The process is alive.  It ends when the runtime exits on a worker
\* goroutine's panic ("crash"), or when main returns with no panic pending:
\* after the report ("done"), after panicHandler has recovered and logged
\* the reader's panic ("aborted") or the panic gracefullyHanldeErrors raised
\* on a read error ("failed").  When main returns while a goroutine is
\* panicking, the runtime does not exit in main: it parks main and leaves the
\* exit to the panicking goroutine.  Until the process ends every goroutine
\* that can run may run.
Running ==
  /\ pc # "crash"
  /\ pc \in {"done", "aborted", "failed"} => panicPending

\* ------------------------------------------------------------ the reader
\* The backward scan for the last line break (lines 241-247) from index i;
\* -1 when it runs off the front, where readBuffer[li] panics.
RECURSIVE lastLineBreak(_, _)
lastLineBreak(buf, i) ==
  IF i < 0 THEN -1
  ELSE IF buf[i + 1] = Newline THEN i
  ELSE lastLineBreak(buf, i - 1)

\* f.Read(readBuffer[remain:]) of n bytes at file offset o.
readInto(buf, rem, f, o, n) ==
  [k \in 1..Len(buf) |->
     IF rem < k /\ k <= rem + n THEN f[o + (k - rem)] ELSE buf[k]]

\* How many bytes the Read returns: what is left of the file, at most the
\* room after the carry-over and at most readMax.
readLen(f, o, rem, m) == Min2(m, Min2(readBufferSize - rem, Len(f) - o))

\* copy(readBuffer[:remain], readBuffer[li+1:blen])
carryOver(buf, l, bl) ==
  [k \in 1..Len(buf) |-> IF k <= bl - l - 1 THEN buf[l + 1 + k] ELSE buf[k]]

\* Lines 232-247: one Read; io.EOF leaves the loop, otherwise the last line
\* break of the filled region is looked for.
ReaderRead ==
  /\ pc = "read"
  /\ IF off = Len(file)
       THEN /\ pc' = "close"
            /\ UNCHANGED <<off, readBuffer, blen, li>>
       ELSE LET n == readLen(file, off, remain, readMax)
                buf == readInto(readBuffer, remain, file, off, n)
                l == lastLineBreak(buf, remain + n - 1)
            IN  /\ off' = off + n
                /\ readBuffer' = buf
                /\ blen' = remain + n
                /\ li' = l
                /\ pc' = IF l < 0 THEN "panic" ELSE "acquire"
  /\ UNCHANGED <<file, readMax, remain, slot, toProcess, doneProcess, closed,
                 wpc, item, workerBuffers, solutions, wg, folded, output>>

\* Lines 232-237: f.Read fails with an error that is not io.EOF; return err.
ReaderReadError ==
  /\ pc = "read"
  /\ pc' = "error"
  /\ UNCHANGED <<file, readMax, off, readBuffer, remain, blen, li, slot,
                 toProcess, doneProcess, closed, wpc, item, workerBuffers,
                 solutions, wg, folded, output>>

\* ReaderAcquire without the wait: with doneProcess empty the reader goes on
\* with index 0.
ReaderAcquireNoWait ==
  /\ pc = "acquire"
  /\ slot' = IF doneProcess # <<>> THEN Head(doneProcess) ELSE 0
  /\ doneProcess' = IF doneProcess # <<>> THEN Tail(doneProcess) ELSE doneProcess
  /\ pc' = "submit"
  /\ UNCHANGED <<file, readMax, off, readBuffer, remain, blen, li, toProcess,
                 closed, wpc, item, workerBuffers, solutions, wg, folded, output>>

\* Line 249: i := <-doneProcess
ReaderAcquire ==
  /\ pc = "acquire"
  /\ doneProcess # <<>>
  /\ slot' = Head(doneProcess)
  /\ doneProcess' = Tail(doneProcess)
  /\ pc' = "submit"
  /\ UNCHANGED <<file, readMax, off, readBuffer, remain, blen, li, toProcess,
                 closed, wpc, item, workerBuffers, solutions, wg, folded, output>>

\* Lines 250-255: copy the span, send the workItem, carry the rest over.  The
\* iteration ends: its locals blen, li and i are gone (held as 0).
ReaderSubmit ==
  /\ pc = "submit"
  /\ Len(toProcess) < chanCap
  /\ workerBuffers' =
       [workerBuffers EXCEPT ![slot + 1] = CopyPrefix(@, readBuffer, li)]
  /\ toProcess' = Append(toProcess, [bufferIndex |-> slot, bufferLen |-> li])
  /\ remain' = blen - li - 1
  /\ readBuffer' = carryOver(readBuffer, li, blen)
  /\ blen' = 0
  /\ li' = 0
  /\ slot' = 0
  /\ pc' = "read"
  /\ UNCHANGED <<file, readMax, off, doneProcess, closed, wpc, item, solutions,
                 wg, folded, output>>

\* Line 258: close(toProcess)
ReaderClose ==
  /\ pc = "close"
  /\ closed' = TRUE
  /\ pc' = "wait"
  /\ UNCHANGED <<file, readMax, off, readBuffer, remain, blen, li, slot,
                 toProcess, doneProcess, wpc, item, workerBuffers, solutions,
                 wg, folded, output>>

\* Line 259: wg.Wait() returns once every worker has called wg.Done.
ReaderWait ==
  /\ pc = "wait"
  /\ wg = 0
  /\ pc' = "print"
  /\ UNCHANGED <<file, readMax, off, readBuffer, remain, blen, li, slot,
                 toProcess, doneProcess, closed, wpc, item, workerBuffers,
                 solutions, wg, folded, output>>

\* Lines 261, 155-180: printSolutions merges the maps and sorts the keys.
\* Every worker has called wg.Done, so no goroutine touches a map meanwhile.
ReaderMerge ==
  /\ pc = "print"
  /\ solutions' = solutionsAfterPrint(solutions)
  /\ pc' = "report"
  /\ UNCHANGED <<file, readMax, off, readBuffer, remain, blen, li, slot,
                 toProcess, doneProcess, closed, wpc, item, workerBuffers,
                 wg, folded, output>>

\* Lines 181-185: one pass of the loop over the sorted keys; its fmt.Printf
\* is one write to stdout.
ReaderPrintLine ==
  /\ pc = "report"
  /\ Len(output) < reportLen(solutions)
  /\ output' = Append(output, reportLine(solutions, Len(output) + 1))
  /\ UNCHANGED <<file, readMax, off, readBuffer, remain, blen, li, slot, pc,
                 toProcess, doneProcess, closed, wpc, item, workerBuffers,
                 solutions, wg, folded>>

\* Lines 186, 262, 290-291: the loop is over; printSolutions returns,
\* solve1brc returns nil and main returns.
ReaderReturn ==
  /\ pc = "report"
  /\ Len(output) = reportLen(solutions)
  /\ pc' = "done"
  /\ UNCHANGED <<file, readMax, off, readBuffer, remain, blen, li, slot,
                 toProcess, doneProcess, closed, wpc, item, workerBuffers,
                 solutions, wg, folded, output>>

\* ----------------------------------------------------------- the workers
\* WorkerRecv with the release moved up: the index goes back on doneProcess
\* as soon as the item is received, before processBuffer.
WorkerRecvReleasesEarly(w) ==
  /\ Running
  /\ wpc[w] = "recv"
  /\ toProcess # <<>>
  /\ item' = [item EXCEPT ![w] = Head(toProcess)]
  /\ toProcess' = Tail(toProcess)
  /\ doneProcess' = Append(doneProcess, Head(toProcess).bufferIndex)
  /\ wpc' = [wpc EXCEPT ![w] = "process"]
  /\ UNCHANGED <<file, readMax, off, readBuffer, remain, blen, li, slot, pc,
                 closed, workerBuffers, solutions, wg, folded, output>>

\* Lines 217-220: item, ok := <-toProcess, with an item.
WorkerRecv(w) ==
  /\ Running
  /\ wpc[w] = "recv"
  /\ toProcess # <<>>
  /\ item' = [item EXCEPT ![w] = Head(toProcess)]
  /\ toProcess' = Tail(toProcess)
  /\ wpc' = [wpc EXCEPT ![w] = "process"]
  /\ UNCHANGED <<file, readMax, off, readBuffer, remain, blen, li, slot, pc,
                 doneProcess, closed, workerBuffers, solutions, wg, folded, output>>

\* Lines 217-220 and 215: the channel is closed and drained; return, wg.Done.
WorkerExit(w) ==
  /\ Running
  /\ wpc[w] = "recv"
  /\ toProcess = <<>>
  /\ closed
  /\ wpc' = [wpc EXCEPT ![w] = "exited"]
  /\ wg' = wg - 1
  /\ UNCHANGED <<file, readMax, off, readBuffer, remain, blen, li, slot, pc,
                 toProcess, doneProcess, closed, item, workerBuffers, solutions,
                 folded, output>>

\* WorkerProcess with a map per worker goroutine instead of a map per slot:
\* worker w folds the slot's bytes into solutions[w - 1].
WorkerProcessOwnMap(w) ==
  /\ Running
  /\ wpc[w] = "process"
  /\ LET idx == item[w].bufferIndex
         b == SubSeq(workerBuffers[idx + 1], 1, item[w].bufferLen)
         r == processBuffer(b, solutions[w])
     IN  /\ solutions' = [solutions EXCEPT ![w] = r.sol]
         /\ folded' = folded (+) r.lines
         /\ wpc' = [wpc EXCEPT ![w] = IF r.panic THEN "panicked" ELSE "release"]
         /\ wg' = IF r.panic THEN wg - 1 ELSE wg
  /\ UNCHANGED <<file, readMax, off, readBuffer, remain, blen, li, slot, pc,
                 toProcess, doneProcess, closed, item, workerBuffers, output>>

\* Lines 221-222: processBuffer on the slot's bytes and the slot's map.  A
\* panic in solveLine is not recovered in the goroutine: it leaves the map as
\* it is, runs the deferred wg.Done() (line 215) and never reaches line 223;
\* the runtime then ends the process (ProcessExit).
WorkerProcess(w) ==
  /\ Running
  /\ wpc[w] = "process"
  /\ LET idx == item[w].bufferIndex
         b == SubSeq(workerBuffers[idx + 1], 1, item[w].bufferLen)
         r == processBuffer(b, solutions[idx + 1])
     IN  /\ solutions' = [solutions EXCEPT ![idx + 1] = r.sol]
         /\ folded' = folded (+) r.lines
         /\ wpc' = [wpc EXCEPT ![w] = IF r.panic THEN "panicked" ELSE "release"]
         /\ wg' = IF r.panic THEN wg - 1 ELSE wg
  /\ UNCHANGED <<file, readMax, off, readBuffer, remain, blen, li, slot, pc,
                 toProcess, doneProcess, closed, item, workerBuffers, output>>

\* Line 223: doneProcess <- item.bufferIndex; the iteration's item is gone.
WorkerRelease(w) ==
  /\ Running
  /\ wpc[w] = "release"
  /\ Len(doneProcess) < chanCap
  /\ doneProcess' = Append(doneProcess, item[w].bufferIndex)
  /\ item' = [item EXCEPT ![w] = noItem]
  /\ wpc' = [wpc EXCEPT ![w] = "recv"]
  /\ UNCHANGED <<file, readMax, off, readBuffer, remain, blen, li, slot, pc,
                 toProcess, closed, workerBuffers, solutions, wg, folded, output>>

\* The run fails.  Main's deferred panicHandler (lines 26-31, 266) recovers
\* the reader's panic, or the one gracefullyHanldeErrors (lines 33-37, 290)
\* raises on the error solve1brc returned, logs it, and main returns; the Go
\* runtime exits with status 2 once a worker goroutine has panicked and run
\* its deferred call, wherever main is then: in the read loop, between two
\* lines of the report, or parked after its return.  The other goroutines
\* are not waited for.
ProcessExit ==
  /\ Running
  /\ \/ pc = "panic" /\ pc' = "aborted"
     \/ pc = "error" /\ pc' = "failed"
     \/ panicPending /\ pc' = "crash"
  /\ UNCHANGED <<file, readMax, off, readBuffer, remain, blen, li, slot,
                 toProcess, doneProcess, closed, wpc, item, workerBuffers,
                 solutions, wg, folded, output>>

Next ==
  \/ ReaderRead
  \/ ReaderReadError
  \/ ReaderAcquire
  \/ ReaderSubmit
  \/ ReaderClose
  \/ ReaderWait
  \/ ReaderMerge
  \/ ReaderPrintLine
  \/ ReaderReturn
  \/ ProcessExit
  \/ \E w \in Workers : WorkerRecv(w)
  \/ \E w \in Workers : WorkerProcess(w)
  \/ \E w \in Workers : WorkerRelease(w)
  \/ \E w \in Workers : WorkerExit(w)

Spec == Init /\ [][Next]_vars

\* ------------------------------------------- a run over well-filled pages
\* Input files of workerNum + 1 pages of two records each, P;10.5 or P;12.3,
\* read one page per Read: the reader needs a slot a worker has released.
PagedRecords ==
  { <<80, 59, 49, 48, 46, 53>>,
    <<80, 59, 49, 50, 46, 51>> }

RECURSIVE PagedLines(_)
PagedLines(n) ==
  IF n = 0 THEN { <<>> }
  ELSE { f \o r \o <<Newline>> : f \in PagedLines(n - 1), r \in PagedRecords }

PagedFiles == PagedLines(2 * (workerNum + 1))

\* The files of PagedFiles that repeat the one record r.
PagedLinesOf(r) ==
  { f \in PagedFiles :
      \A k \in 0..(2 * (workerNum + 1) - 1) :
        SubSeq(f, k * (Len(r) + 1) + 1, k * (Len(r) + 1) + Len(r)) = r }

pageOfTwo == 2 * (Len(CHOOSE r \in PagedRecords : TRUE) + 1)

InitPaged == \E f \in PagedFiles : InitWith(f, pageOfTwo)

SpecPaged == InitPaged /\ [][Next]_vars

\* Go's scheduler lets every goroutine that can take a step take one in the
\* end: the reader (main goroutine) and each worker goroutine; a process
\* that is on its way out does exit.  A failing Read is the environment's
\* step and is not forced.  ReaderMerge is enabled exactly at "print",
\* ReaderPrintLine exactly at "report" with a line left to write, and
\* WorkerProcess(w) exactly when the process runs and w is at "process";
\* none can be taken for ever: their weak fairness is that the goroutine is
\* again and again not waiting there.
Fairness ==
  /\ WF_vars(ReaderRead \/ ReaderAcquire \/ ReaderSubmit \/ ReaderClose
               \/ ReaderWait \/ ReaderReturn \/ ProcessExit)
  /\ []<>(pc # "print")
  /\ []<>~(pc = "report" /\ Len(output) < reportLen(solutions))
  /\ \A w \in Workers :
       /\ WF_vars(WorkerRecv(w) \/ WorkerRelease(w) \/ WorkerExit(w))
       /\ []<>~(Running /\ wpc[w] = "process")

\* The paged files of one record repeated, under fair scheduling.
InitHandOver ==
  \E f \in UNION { PagedLinesOf(r) : r \in PagedRecords } : InitWith(f, pageOfTwo)

SpecHandOver == InitHandOver /\ [][Next]_vars /\ Fairness

\* ---------------------------------------------- a run over short records
\* Files of MaxLines records drawn from P;1.5, the shortest a valid record
\* can be, and O;-2.1: a page holds up to three of them.
ShortRecords ==
  { <<80, 59, 49, 46, 53>>,
    <<79, 59, 45, 50, 46, 49>> }

RECURSIVE ShortLines(_)
ShortLines(n) ==
  IF n = 0 THEN { <<>> }
  ELSE { f \o r \o <<Newline>> : f \in ShortLines(n - 1), r \in ShortRecords }

ShortFiles == ShortLines(MaxLines)

InitShort == \E f \in ShortFiles, m \in 1..readBufferSize : InitWith(f, m)

SpecShort == InitShort /\ [][Next]_vars

\* ------------------------------------------- a run over malformed records
\* Lines that are no valid record: P10.5 (no ';'), P;1.23 (two fractional
\* digits), P;12. (no fractional digit) and P;1x.3 (a non-digit in the number).
NoSemicolonLine == <<80, 49, 48, 46, 53>>

BadValueLines ==
  { <<80, 59, 49, 46, 50, 51>>,
    <<80, 59, 49, 50, 46>>,
    <<80, 59, 49, 120, 46, 51>> }

RECURSIVE MixedLines(_)
MixedLines(n) ==
  IF n = 0 THEN { <<>> }
  ELSE { f \o r \o <<Newline>> :
           f \in MixedLines(n - 1),
           r \in Records \cup {NoSemicolonLine} \cup BadValueLines }

\* P;1.5, O;-2.1, a line XXX with no ';' and an empty line: one page holds
\* the file, and the worker has folded two stations when it panics on XXX.
TwoStationsThenFault ==
  <<80, 59, 49, 46, 53, Newline, 79, 59, 45, 50, 46, 49, Newline,
    88, 88, 88, Newline, Newline>>

\* Files of 1..MaxLines newline-ended lines, valid or not, and the file above.
MalformedFiles ==
  UNION { MixedLines(n) : n \in 1..MaxLines } \cup { TwoStationsThenFault }

InitMalformed == \E f \in MalformedFiles, m \in 1..readBufferSize : InitWith(f, m)

SpecMalformed == InitMalformed /\ [][Next]_vars

\* ------------------------------------------------- reading an input file
\* What the claims say about a file, read off the file itself.
EndsWithNewline(f) == Len(f) > 0 /\ f[Len(f)] = Newline

\* The records of f in order: the byte runs between newlines; a last run
\* without a newline counts when withLast is TRUE.
RECURSIVE splitLines(_, _, _)
splitLines(f, cur, withLast) ==
  IF Len(f) = 0 THEN (IF withLast /\ Len(cur) > 0 THEN <<cur>> ELSE <<>>)
  ELSE IF f[1] = Newline THEN <<cur>> \o splitLines(Tail(f), <<>>, withLast)
  ELSE splitLines(Tail(f), Append(cur, f[1]), withLast)

completeLines(f) == splitLines(f, <<>>, FALSE)
allLines(f) == splitLines(f, <<>>, TRUE)

RECURSIVE bagOfSeq(_)
bagOfSeq(q) ==
  IF Len(q) = 0 THEN EmptyBag ELSE SetToBag({Head(q)}) (+) bagOfSeq(Tail(q))

stationOf(line) == SubSeq(line, 1, findSemicolon(line, 0))
valuePart(line) == SubSeq(line, findSemicolon(line, 0) + 2, Len(line))

\* The value of a record as the program takes it: a float64.
valueOf(line) == fastParseFloat64(valuePart(line)).val

\* The value of a valid record as the decimal number it spells, in tenths.
RECURSIVE decimalDigits(_, _)
decimalDigits(v, n) ==
  IF Len(v) = 0 THEN n
  ELSE IF v[1] = Dot THEN decimalDigits(Tail(v), n)
  ELSE decimalDigits(Tail(v), 10 * n + (v[1] - Zero))

decimalOf(line) ==
  LET v == valuePart(line)
  IN  IF v[1] = Minus THEN 0 - decimalDigits(Tail(v), 0) ELSE decimalDigits(v, 0)

stationsOf(f) == { stationOf(allLines(f)[n]) : n \in 1..Len(allLines(f)) }
valuesOf(f, name) ==
  LET ls == allLines(f)
  IN  [n \in { m \in 1..Len(ls) : stationOf(ls[m]) = name } |-> decimalOf(ls[n])]

RECURSIVE sumOver(_, _)
sumOver(g, D) ==
  IF D = {} THEN 0
  ELSE LET d == CHOOSE x \in D : TRUE IN g[d] + sumOver(g, D \ {d})

abs(x) == IF x < 0 THEN 0 - x ELSE x

\* sum / count of a sum in tenths, rounded half away from zero, in size.
roundHalfAway(sum, count) == (2 * abs(sum) + count) \div (2 * count)

\* The report line the claims ask for, from the decimal values of the file:
\* the smallest value, the mean rounded half away from zero, the largest
\* value.  A negative mean that rounds to zero may keep its sign.
expectedLine(f, name) ==
  LET v == valuesOf(f, name)
      D == DOMAIN v
      lo == CHOOSE x \in { v[d] : d \in D } : \A d \in D : x <= v[d]
      hi == CHOOSE x \in { v[d] : d \in D } : \A d \in D : x >= v[d]
      sum == sumOver(v, D)
  IN  name \o <<Equals>> \o fmtTenths(lo < 0, abs(lo))
        \o <<Slash>> \o fmtTenths(sum < 0, roundHalfAway(sum, Cardinality(D)))
        \o <<Slash>> \o fmtTenths(hi < 0, abs(hi))
        \o <<Newline>>

\* The station name of a report line: the bytes before '='.
RECURSIVE lineName(_)
lineName(line) ==
  IF Len(line) = 0 \/ line[1] = Equals THEN <<>>
  ELSE <<line[1]>> \o lineName(Tail(line))

\* --------------------------------------------------- reference schedules
\* What stdout can hold when the run is over, given the maps sols at the join
\* (line 259).  With no worker panic it is the whole report.  After a worker
\* goroutine's panic the runtime's exit may come before the report, between
\* two of its lines, or after it.
prefixesOf(q) == { SubSeq(q, 1, n) : n \in 0..Len(q) }

reportsOf(sols, panicked) ==
  IF panicked THEN prefixesOf(printSolutions(sols)) ELSE { printSolutions(sols) }

\* The whole file comes in one Read into one page that holds it all: one
\* chunk, cut at the file's last line break (lines 232-251), for the worker
\* that takes slot 0.  With no line break in the fill the reader panics at
\* line 243 and nothing is written.
singleChunkOutputs(f) ==
  LET l == lastLineBreak(f, Len(f) - 1)
      r == processBuffer(SubSeq(f, 1, l), EmptyMap)
  IN  IF Len(f) = 0 THEN reportsOf([k \in 1..workerNum |-> EmptyMap], FALSE)
      ELSE IF l < 0 THEN { <<>> }
      ELSE reportsOf([k \in 1..workerNum |-> IF k = 1 THEN r.sol ELSE EmptyMap],
                     r.panic)

\* The schedule in which a worker takes and processes every chunk before the
\* reader reads again (lines 232-255, 217-223): doneProcess q rotates.  A
\* worker that panics in processBuffer never reaches line 223: its slot index
\* does not come back and the goroutine is gone; the reader goes on with the
\* slots that are left and waits for ever at line 249 when none is.  joined
\* tells whether the reader gets to line 259.
RECURSIVE eagerRun(_, _, _, _, _, _, _, _)
eagerRun(f, m, o, buf, rem, q, sols, panicked) ==
  IF o = Len(f) THEN [sols |-> sols, panicked |-> panicked, joined |-> TRUE]
  ELSE LET n == readLen(f, o, rem, m)
           b2 == readInto(buf, rem, f, o, n)
           l == lastLineBreak(b2, rem + n - 1)
       IN  IF l < 0 \/ q = <<>>
             THEN [sols |-> sols, panicked |-> panicked, joined |-> FALSE]
           ELSE LET i == Head(q)
                    r == processBuffer(SubSeq(b2, 1, l), sols[i + 1])
                IN  eagerRun(f, m, o + n, carryOver(b2, l, rem + n),
                             rem + n - l - 1,
                             IF r.panic THEN Tail(q) ELSE Append(Tail(q), i),
                             [sols EXCEPT ![i + 1] = r.sol],
                             panicked \/ r.panic)

\* What stdout can hold when that run is over: nothing when the reader did
\* not get to the join.
eagerOutputs(f, m) ==
  LET e == eagerRun(f, m, 0, zeroBuffer, 0,
                    [k \in 1..workerNum |-> k - 1],
                    [k \in 1..workerNum |-> EmptyMap], FALSE)
  IN  IF e.joined THEN reportsOf(e.sols, e.panicked) ELSE { <<>> }

\* ------------------------------- the single-threaded iteration, part_002
\* The line scan inside part_002's read loop (lines 162-175): it runs while
\* fi <= li, so the line ended by the newline at li is handed to solveLine.
RECURSIVE part002Scan(_, _, _, _, _)
part002Scan(b, fi, ri, l, st) ==
  IF fi > l THEN st
  ELSE IF b[fi + 1] = Newline
    THEN LET r == solveLine(SubSeq(b, ri + 1, fi), st.sol)
         IN  IF r.panic THEN [st EXCEPT !.panic = TRUE, !.sol = r.sol]
             ELSE part002Scan(b, fi + educatedJump + 1, fi + 1, l,
                              [sol |-> r.sol, panic |-> FALSE])
    ELSE part002Scan(b, fi + 1, ri, l, st)

\* part_002's read loop (lines 143-182) over file f with Reads of at most m
\* bytes, from offset o with rem bytes carried over in buf: the one map.
RECURSIVE part002Run(_, _, _, _, _, _)
part002Run(f, m, o, buf, rem, sol) ==
  IF o = Len(f) THEN [sol |-> sol, panic |-> FALSE]
  ELSE LET n == readLen(f, o, rem, m)
           b2 == readInto(buf, rem, f, o, n)
           l == lastLineBreak(b2, rem + n - 1)
       IN  IF l < 0 THEN [sol |-> sol, panic |-> TRUE]
           ELSE LET r == part002Scan(b2, 0, 0, l, [sol |-> sol, panic |-> FALSE])
                IN  IF r.panic THEN r
                    ELSE part002Run(f, m, o + n, carryOver(b2, l, rem + n),
                                    rem + n - l - 1, r.sol)

\* What part_002's solve1brc writes (lines 184-193): the sorted keys of its
\* one map, one line each; nothing when it panicked.
part002Output(f, m) ==
  LET r == part002Run(f, m, 0, zeroBuffer, 0, EmptyMap)
      keys == sortKeys(DOMAIN r.sol)
  IN  IF r.panic THEN <<>>
      ELSE [n \in 1..Len(keys) |-> formatLine(keys[n], r.sol[keys[n]])]

\* ------------------------------------------------------------ the claims

\* C1: when the workers have been joined, the lines that were folded into
\* the aggregators are exactly the complete (newline-ended) lines of the
\* file, each once: none skipped, none folded twice, none split.
C1_EveryLineFoldedOnce ==
  pc = "print" => folded = bagOfSeq(completeLines(file))

\* C2: for a valid input every emitted report line is, for its station,
\* name=min/mean/max with min the smallest and max the largest value of the
\* station in the file and the mean rounded half away from zero.
C2_MinMeanMaxOfStation ==
  (pc = "done" /\ EndsWithNewline(file)) =>
    \A n \in 1..Len(output) :
      /\ lineName(output[n]) \in stationsOf(file)
      /\ output[n] = expectedLine(file, lineName(output[n]))

\* C3: when the file's last line has no newline, the run does not fault on
\* reaching the end of the file, and once the workers are joined that last
\* line has been folded into an aggregator.
C3_UnterminatedLastLineFolded ==
  ~EndsWithNewline(file) =>
    /\ ~(pc = "panic" /\ off = Len(file))
    /\ pc = "print" =>
         CopiesIn(allLines(file)[Len(allLines(file))], folded) >= 1

\* C4: for a valid input the report is the one obtained when the whole file
\* is delivered as a single chunk, however the reads cut the file.
C4_SameAsSingleChunk ==
  (pc = "done" /\ EndsWithNewline(file)) => output \in singleChunkOutputs(file)

\* C5: for a fixed input and fixed read boundaries the report is the same in
\* every interleaving: it is the report of the schedule in which each chunk
\* is processed and released before the next read.
C5_SameInEveryInterleaving ==
  pc = "done" => output \in eagerOutputs(file, readMax)

\* C6: merging the per-slot aggregators in any order gives the same merged
\* result (count, sum, min and max of every station).
C6_MergeOrderIndependent ==
  pc = "print" =>
    \A p \in Permutations(1..workerNum) :
      mergeSolutions([k \in 1..workerNum |-> solutions[p[k]]])
        = mergeSolutions(solutions)

\* Who holds slot index i: how often it is idle on doneProcess, in the
\* reader's hand, queued on toProcess, in a worker's hand.
countIn(q, P(_)) == Cardinality({ k \in 1..Len(q) : P(q[k]) })

idleCount(i) == LET is(x) == x = i IN countIn(doneProcess, is)
readerHolds(i) == pc = "submit" /\ slot = i
queuedCount(i) == LET is(x) == x.bufferIndex = i IN countIn(toProcess, is)
workerHolds(w, i) ==
  wpc[w] \in {"process", "release", "panicked"} /\ item[w].bufferIndex = i
holderCount(i) ==
  idleCount(i) + (IF readerHolds(i) THEN 1 ELSE 0) + queuedCount(i)
    + Cardinality({ w \in Workers : workerHolds(w, i) })

\* Worker w is at processBuffer on the map of slot i.
updating(w, i) == wpc[w] = "process" /\ item[w].bufferIndex = i

\* Chunks submitted, or being filled, and not yet released.
inFlight ==
  (IF pc = "submit" THEN 1 ELSE 0) + Len(toProcess)
    + Cardinality({ w \in Workers : wpc[w] \in {"process", "release", "panicked"} })

ReaderStep ==
  \/ ReaderRead
  \/ ReaderReadError
  \/ ReaderAcquire
  \/ ReaderSubmit
  \/ ReaderClose
  \/ ReaderWait
  \/ ReaderMerge
  \/ ReaderPrintLine
  \/ ReaderReturn

\* C7: every slot index has exactly one holder at any time (idle on
\* doneProcess, the reader, queued on toProcess, or one worker); a slot's
\* buffer is written only by the reader while the reader holds the slot; and
\* an index goes onto doneProcess only from a worker that holds it and has
\* come back from processBuffer.
C7_ExclusiveSlotOwnership ==
  /\ [](\A i \in Slots : holderCount(i) = 1)
  /\ [][ /\ \A i \in Slots :
              workerBuffers'[i + 1] # workerBuffers[i + 1] => readerHolds(i)
         /\ Len(doneProcess') > Len(doneProcess) =>
              \E w \in Workers :
                /\ wpc[w] = "release"
                /\ wpc'[w] = "recv"
                /\ doneProcess' = Append(doneProcess, item[w].bufferIndex) ]_vars

\* The reader holds one slot while a worker is inside processBuffer on another.
C7_Witness ==
  /\ pc = "submit"
  /\ \E w \in Workers : wpc[w] = "process" /\ item[w].bufferIndex # slot

\* C8: never more than workerNum chunks are submitted or being filled and
\* not yet released, and with no idle slot index the reader cannot move: it
\* waits on doneProcess until a worker releases one.
C8_BackPressure ==
  /\ inFlight <= workerNum
  /\ (pc = "acquire" /\ doneProcess = <<>>) => ~ENABLED ReaderStep

\* The reader waits for a slot while every slot is in flight.
C8_Witness ==
  /\ pc = "acquire"
  /\ doneProcess = <<>>
  /\ inFlight = workerNum

\* C9: when printSolutions runs, toProcess is closed and drained, every chunk
\* has been processed and its slot released, and every worker has exited; from
\* then on the maps change only by printSolutions' own merge.
C9_PrintAfterJoin ==
  /\ [](pc \in {"print", "report", "done"} =>
          /\ closed
          /\ toProcess = <<>>
          /\ Len(doneProcess) = workerNum
          /\ wg = 0
          /\ \A w \in Workers : wpc[w] = "exited")
  /\ [][ (pc \in {"print", "report", "done"} /\ solutions' # solutions) =>
            (pc = "print" /\ pc' = "report" /\ wpc' = wpc) ]_vars

\* C10: for a valid input the report has exactly one line for each station
\* of the file, in strictly ascending byte-wise order of the station names.
C10_OneLinePerStationSorted ==
  (pc = "done" /\ EndsWithNewline(file)) =>
    LET names == [n \in 1..Len(output) |-> lineName(output[n])]
    IN  /\ { names[n] : n \in 1..Len(names) } = stationsOf(file)
        /\ \A n \in 1..(Len(names) - 1) : lessBytes(names[n], names[n + 1])

\* A line with no ';' in it.
hasNoSemicolon(line) == findSemicolon(line, 0) >= Len(line)

hasLineWithoutSemicolon(f) ==
  \E n \in 1..Len(allLines(f)) : hasNoSemicolon(allLines(f)[n])

\* C11: for every input that holds a line with no ';', wherever the line sits
\* in the file or in its chunk, the run does not complete normally and emits
\* no output line.
C11_MalformedLineAborts ==
  hasLineWithoutSemicolon(file) => (pc # "done" /\ output = <<>>)

\* C12: when the reader has hit a fatal condition (a read error that is not
\* end-of-file, or a filled buffer with no newline), toProcess is closed and
\* every worker has been joined: none is left waiting on toProcess or inside
\* processBuffer.
C12_FatalReaderShutsDown ==
  pc \in {"panic", "error", "aborted", "failed"} =>
    /\ closed
    /\ wg = 0
    /\ \A w \in Workers : wpc[w] = "exited"

\* C14: for a valid input, in every interleaving, the report is exactly what
\* the single-threaded solve1brc of part_002 writes for the same file read
\* with the same Reads.
C14_SameAsSingleThreaded ==
  (pc = "done" /\ EndsWithNewline(file)) =>
    output = part002Output(file, readMax)

\* The map the claims ask for after the record line is folded into map old:
\* a new station starts at min = max = sum = value and count = 1, a known
\* station is updated, every other entry is kept.
foldedAsSpecified(old, line) ==
  LET name == stationOf(line)
      v == valueOf(line)
  IN  [k \in DOMAIN old \cup {name} |->
         IF k # name THEN old[k]
         ELSE IF name \notin DOMAIN old
           THEN [min |-> v, max |-> v, acc |-> v, count |-> 1]
           ELSE [min |-> IF float64Less(v, old[k].min) THEN v ELSE old[k].min,
                 max |-> IF float64Less(old[k].max, v) THEN v ELSE old[k].max,
                 acc |-> float64Add(old[k].acc, v),
                 count |-> old[k].count + 1]]

\* C15: a step of a worker that folds exactly one record into the map of its
\* slot leaves that map as specified: a new station is inserted with
\* min = max = value, sum = value and count = 1; a known station gets
\* sum + value, count + 1, the smaller min and the larger max; the entries of
\* other stations are unchanged.
C15_SolveLineFold ==
  [][ \A i \in Slots : \A line \in BagToSet(folded' (-) folded) :
        (BagCardinality(folded' (-) folded) = 1
           /\ \E w \in Workers : updating(w, i) /\ wpc'[w] = "release")
          => solutions'[i + 1] = foldedAsSpecified(solutions[i + 1], line) ]_vars

\* The merged entry the claims ask for, for station k over the maps sols:
\* counts and sums added up, the least min, the greatest max.
RECURSIVE float64SumOver(_, _)
float64SumOver(g, D) ==
  IF D = {} THEN float64Zero
  ELSE LET d == CHOOSE x \in D : \A y \in D : y <= x
       IN  float64Add(float64SumOver(g, D \ {d}), g[d])

mergedAsSpecified(sols, k) ==
  LET D == { n \in 1..Len(sols) : k \in DOMAIN sols[n] }
  IN  [count |-> sumOver([n \in D |-> sols[n][k].count], D),
       acc |-> float64SumOver([n \in D |-> sols[n][k].acc], D),
       min |-> CHOOSE x \in { sols[n][k].min : n \in D } :
                 \A n \in D : ~float64Less(sols[n][k].min, x),
       max |-> CHOOSE x \in { sols[n][k].max : n \in D } :
                 \A n \in D : ~float64Less(x, sols[n][k].max)]

\* C16: when printSolutions merges the aggregators, the merged entry of every
\* station seen in any aggregator has the sum of the station's counts, the
\* sum of its sums, the least of its mins and the greatest of its maxes; a
\* station in one aggregator only keeps that aggregator's count and sum.
C16_MergeAddsUp ==
  pc = "print" =>
    LET merged == mergeSolutions(solutions)
    IN  /\ DOMAIN merged = UNION { DOMAIN solutions[n] : n \in 1..workerNum }
        /\ \A k \in DOMAIN merged : merged[k] = mergedAsSpecified(solutions, k)

\* A well-formed value: an optional '-', one or more digits, '.', one digit.
isDigit(c) == Zero <= c /\ c <= Zero + 9

isValidValue(v) ==
  LET u == IF Len(v) > 0 /\ v[1] = Minus THEN Tail(v) ELSE v
  IN  /\ Len(u) >= 3
      /\ u[Len(u) - 1] = Dot
      /\ isDigit(u[Len(u)])
      /\ \A k \in 1..(Len(u) - 2) : isDigit(u[k])

\* C17: a record whose value is malformed (a fractional part that is not
\* exactly one digit, or a non-digit where a digit is required) is rejected:
\* no line with such a value is ever folded into an aggregator.
C17_MalformedValueRejected ==
  \A line \in BagToSet(folded) : isValidValue(valuePart(line))

\* A valid record: a non-empty station name, ';', a well-formed value.
isValidRecord(line) ==
  /\ findSemicolon(line, 0) >= 1
  /\ findSemicolon(line, 0) < Len(line)
  /\ isValidValue(valuePart(line))

madeOfValidRecords(b) ==
  \A n \in 1..Len(allLines(b)) : isValidRecord(allLines(b)[n])

\* The chunk worker w holds.
chunkOf(w) ==
  SubSeq(workerBuffers[item[w].bufferIndex + 1], 1, item[w].bufferLen)

\* C18: for a chunk made of valid records the scan that skips educatedJump
\* bytes after each newline hands to solveLine exactly the lines that end at
\* a newline of the chunk, the ones a byte-by-byte split finds: no newline is
\* passed over, and each slice is exactly one record.
C18_SkipAheadSafe ==
  \A w \in Workers :
    (wpc[w] = "process" /\ madeOfValidRecords(chunkOf(w))) =>
      LET r == processBuffer(chunkOf(w), solutions[item[w].bufferIndex + 1])
      IN  /\ ~r.panic
          /\ r.lines = bagOfSeq(completeLines(chunkOf(w)))
          /\ \A line \in BagToSet(r.lines) : isValidRecord(line)

\* A worker has scanned a chunk of three valid records: the skip after the
\* first newline was followed by the find of the second.
C18_Witness ==
  \E w \in Workers :
    /\ wpc[w] = "release"
    /\ madeOfValidRecords(chunkOf(w))
    /\ Len(allLines(chunkOf(w))) >= 3
    /\ BagCardinality(folded) >= 2

\* C19: for a valid input whose Reads fill the page, the pipeline does not
\* stop short of the report: the reader's send on toProcess and a worker's
\* send on doneProcess always find room, and unless a Read has failed some
\* step is possible in every state before the report is written.
C19_TerminatesWithReport ==
  readMax = readBufferSize =>
    /\ pc = "submit" => Len(toProcess) < chanCap
    /\ \A w \in Workers : wpc[w] = "release" => Len(doneProcess) < chanCap
    /\ pc \in {"done", "failed"} \/ ENABLED Next

\* C13 as stated: once a worker has updated solutions[i], no other worker
\* ever updates it: each map has one worker for the whole run.
C13_OneWorkerPerMap ==
  \A i \in Slots : \A w \in Workers :
    [](updating(w, i) => [](\A v \in Workers \ {w} : ~updating(v, i)))

\* C13 amended: a map belongs to its slot, not to a worker.  At any time at
\* most one worker holds slot i, and solutions[i] changes only by the step of
\* the worker that holds slot i and runs processBuffer on it, or after the
\* join by printSolutions' merge.
C13_OneWorkerAtATime ==
  /\ [](\A i \in Slots : Cardinality({ w \in Workers : workerHolds(w, i) }) <= 1)
  /\ [][ \A i \in Slots :
            solutions'[i + 1] # solutions[i + 1] =>
              \/ pc = "print" /\ pc' = "report"
              \/ \E w \in Workers : updating(w, i) /\ wpc'[w] = "release" ]_vars

\* A worker is at processBuffer on a slot whose map already holds a station
\* from an earlier chunk, while another worker is at processBuffer on
\* another slot.
C13_Witness ==
  \E w \in Workers, v \in Workers :
    /\ w # v
    /\ wpc[w] = "process"
    /\ wpc[v] = "process"
    /\ item[w].bufferIndex # item[v].bufferIndex
    /\ solutions[item[w].bufferIndex + 1] # EmptyMap

\* C20: in every reachable state every entry with count > 0 has min <= max:
\* in each per-slot aggregator, before and after the merge, and in the merged
\* result printSolutions builds from the aggregators.
C20_MinAtMostMax ==
  /\ \A n \in 1..workerNum : \A k \in DOMAIN solutions[n] :
       solutions[n][k].count > 0 =>
         ~float64Less(solutions[n][k].max, solutions[n][k].min)
  /\ pc = "print" =>
       \A k \in DOMAIN mergeSolutions(solutions) :
         mergeSolutions(solutions)[k].count > 0 =>
           ~float64Less(mergeSolutions(solutions)[k].max,
                        mergeSolutions(solutions)[k].min)

\* The report is written and a merged entry holds min < max.
C20_Witness ==
  /\ pc = "done"
  /\ \E n \in 1..workerNum : \E k \in DOMAIN solutions[n] :
       /\ solutions[n][k].count > 1
       /\ float64Less(solutions[n][k].min, solutions[n][k].max)

=============================================================================
